---- MODULE Spec2Model ----
(***************************************************************************)
(* State-machine model of main.py: the camera selector, the ChArUco board  *)
(* detector wrapper and the capture loop with its key handling.            *)
(* The camera SDK (pypylon) and the vision library (cv2) are environment:  *)
(* what they return is drawn from small sets; what main.py does with the   *)
(* returned values is translated statement by statement.                   *)
(***************************************************************************)
EXTENDS Integers, Sequences, FiniteSets, TLC

None == "None"       \* Python's None where a string is expected
NoCamera == 0         \* no device index
NoBuf == 0            \* Python's None where an array is expected
NoPoint == <<>>       \* Python's None where a corner point is expected
Free == [base |-> 0, marks |-> <<>>]    \* content of an unallocated buffer

\* ---- bounds of the model -------------------------------------------------
MaxIter == 2        \* loop iterations explored
MaxKeys == 1        \* key events pending in the window system's queue
MaxCorners == 2     \* charuco corners the vision library may report

\* ---- program constants ---------------------------------------------------
KEY_Q == 113        \* ord('q')
KEY_S == 115        \* ord('s')
KEY_A == 97         \* ord('a'): a key that is neither 'q' nor 's'
KEY_U == 117        \* ord('u'): another one, with 117 & 115 = 113
NoKey == -1         \* cv2.waitKey: no key event within the poll
ByteMask == 255     \* 0xFF

Keys == {KEY_Q, KEY_S, KEY_A, KEY_U}

\* ---- environment the program is started in -------------------------------
Enumerations == {<<>>, <<"A123">>, <<"A123", "B456">>}
\* sys.argv[1] when present is any string, the empty string included
ArgStrings == {"", "A123", "B456", "Z000"}

VARIABLES
    argv,           \* sys.argv[1], or None when absent
    devices,        \* tl_factory.EnumerateDevices(): sequence of serials
    npBound,        \* does the global name np resolve when main() runs:
                    \* the module never binds it, so run as a script it
                    \* does not; it does only if the caller's namespace
                    \* supplies it
    pc,             \* position in main()
    error,          \* exception that ended the process, or None
    serial_number,  \* main's local serial_number
    camera,         \* index into devices of the InstantCamera, or NoCamera
    cameraState,    \* "none" | "created" | "grabbing" | "closed"
    windows,        \* HighGUI windows: title -> content shown
    files,          \* working directory: file name -> content
    keyQueue,       \* key events pending for cv2.waitKey
    grabLog,        \* outcome of every RetrieveResult so far
    grabResult,     \* main's local grabResult: None | "ok" | "failed"
    grabHeld,       \* grab results retrieved and not yet released
    heap,           \* numpy buffers: buffer id -> content (Free if unused)
    img, raw_img, charuco_img,      \* main's locals: buffer ids or NoBuf
    top_left, bottom_right, board_detected,
    charuco_corners, charuco_ids,   \* detect_charuco_board's locals
    marker_ids,     \* detect_charuco_board's local ids (line 67)
    key,            \* main's local key
    steps,          \* history: steps executed in the current iteration
    converted,      \* history: content of the frame right after Convert
    keysRead,       \* history: key events consumed in the current iteration
    written         \* history: file name -> content written this iteration

vars == <<argv, devices, npBound, pc, error, serial_number, camera,
          cameraState, windows, files, keyQueue, grabLog, grabResult,
          grabHeld, heap, img, raw_img, charuco_img, top_left, bottom_right,
          board_detected, charuco_corners, charuco_ids, marker_ids, key,
          steps, converted, keysRead, written>>

envVars == <<argv, devices, npBound>>
frameVars == <<heap, img, raw_img, charuco_img, top_left, bottom_right,
               board_detected, charuco_corners, charuco_ids, marker_ids,
               converted>>

\* ---- Python helpers ------------------------------------------------------

\* truth value of an optional string: None and "" are both false
Truthy(s) == s # None /\ s # ""

\* Python's & on integers (two's complement of unbounded width)
RECURSIVE BitAnd(_, _)
BitAnd(a, b) ==
    IF a = 0 \/ b = 0 THEN 0
    ELSE IF a = -1 THEN b
    ELSE IF b = -1 THEN a
    ELSE (a % 2) * (b % 2) + 2 * BitAnd(a \div 2, b \div 2)

BufIds == 1..4

EmptyMap == [x \in {} |-> Free]

MapPut(m, k, v) == [x \in (DOMAIN m) \cup {k} |-> IF x = k THEN v ELSE m[x]]

\* ---- the vision library as seen by detect_charuco_board ------------------

\* an optional array returned by cv2: None, or a sequence
PyNone == [isNone |-> TRUE, val |-> <<>>]
Arr(s) == [isNone |-> FALSE, val |-> s]

\* the i-th corner the library reports (corners of one frame are distinct)
Point(i) == <<10 * i, 20 * i>>

\* ids returned by cv2.aruco.detectMarkers (line 67)
MarkerIdResults == {PyNone, Arr(<<>>), Arr(<<7>>)}

CornerSeqs == {[i \in 1..n |-> Point(i)] : n \in 0..MaxCorners}
IdSeq(n) == [i \in 1..n |-> i - 1]

\* (charuco_corners, charuco_ids) returned by interpolateCornersCharuco
\* (line 72): the library fills both from the same list of corners, so they
\* are parallel arrays; an empty array may come back as None.
InterpolationResults ==
    {[corners |-> PyNone, ids |-> PyNone],
     [corners |-> PyNone, ids |-> Arr(<<>>)],
     [corners |-> Arr(<<>>), ids |-> PyNone]}
    \cup {[corners |-> Arr(c), ids |-> Arr(IdSeq(Len(c)))] : c \in CornerSeqs}

VisionResults ==
    {[marker_ids |-> m, interp |-> r] :
        m \in MarkerIdResults, r \in InterpolationResults}

\* ---- select_camera_by_serial ---------------------------------------------

\* for device in devices: if device.GetSerialNumber() == serial_number
RECURSIVE FindSerial(_, _, _)
FindSerial(devs, serial, i) ==
    IF i > Len(devs) THEN NoCamera
    ELSE IF devs[i] = serial THEN i
    ELSE FindSerial(devs, serial, i + 1)

SerialGiven(serial) == Truthy(serial)

select_camera_by_serial(devs, serial) ==
    IF SerialGiven(serial)
    THEN LET i == FindSerial(devs, serial, 1)
         IN IF i # NoCamera
            THEN [ok |-> TRUE, device |-> i, error |-> None]
            ELSE [ok |-> FALSE, device |-> NoCamera, error |-> "ValueError: not found"]
    ELSE IF Len(devs) = 0
         THEN [ok |-> FALSE, device |-> NoCamera, error |-> "ValueError: no cameras"]
         ELSE [ok |-> TRUE, device |-> 1, error |-> None]

\* camera.GetDeviceInfo().GetSerialNumber()
CameraSerial == IF camera = NoCamera THEN None ELSE devices[camera]

\* ---- main: startup -------------------------------------------------------

Init ==
    /\ argv \in {None} \cup ArgStrings
    /\ devices \in Enumerations
    /\ npBound \in BOOLEAN
    /\ pc = "start"
    /\ error = None
    /\ serial_number = argv
    /\ camera = NoCamera
    /\ cameraState = "none"
    /\ windows = EmptyMap
    /\ files = EmptyMap
    /\ keyQueue = <<>>
    /\ grabLog = <<>>
    /\ grabResult = None
    /\ grabHeld = 0
    /\ heap = [b \in BufIds |-> Free]
    /\ img = NoBuf /\ raw_img = NoBuf /\ charuco_img = NoBuf
    /\ top_left = NoPoint /\ bottom_right = NoPoint /\ board_detected = FALSE
    /\ charuco_corners = PyNone /\ charuco_ids = PyNone
    /\ marker_ids = PyNone
    /\ key = NoKey
    /\ steps = <<>>
    /\ converted = Free
    /\ keysRead = <<>>
    /\ written = EmptyMap

\* line 89: camera = select_camera_by_serial(serial_number)
SelectCamera ==
    /\ pc = "start"
    /\ LET r == select_camera_by_serial(devices, serial_number)
       IN IF r.ok
          THEN /\ camera' = r.device
               /\ cameraState' = "created"
               /\ pc' = "selected"
               /\ error' = error
          ELSE /\ pc' = "crashed"
               /\ error' = r.error
               /\ UNCHANGED <<camera, cameraState>>
    /\ UNCHANGED <<envVars, serial_number, windows, files, keyQueue, grabLog,
                   grabResult, grabHeld, frameVars, key, steps, keysRead,
                   written>>

\* lines 91-92: if serial_number is None: serial_number = camera...GetSerialNumber()
ResolvedSerial == IF serial_number = None THEN CameraSerial ELSE serial_number

\* lines 91-102: resolve the serial, camera.StartGrabbing(LatestImageOnly)
\* (StartGrabbing opens the device), set up the converter
StartGrabbing ==
    /\ pc = "selected"
    /\ serial_number' = ResolvedSerial
    /\ cameraState' = "grabbing"
    /\ pc' = "loop"
    /\ UNCHANGED <<envVars, error, camera, windows, files, keyQueue, grabLog,
                   grabResult, grabHeld, frameVars, key, steps, keysRead,
                   written>>

\* ---- detect_charuco_board ------------------------------------------------

Draw(content, mark) == [content EXCEPT !.marks = Append(@, mark)]

\* line 70: if ids is not None and len(ids) > 0
MarkersDetectedM(ids) == ~ids.isNone

MarkersDetected(ids) == ~ids.isNone /\ Len(ids.val) > 0

UsableCornersM(cc, ci) == ~cc.isNone /\ ~ci.isNone

\* line 74: charuco_corners is not None and charuco_ids is not None
\*          and len(charuco_ids) > 0
UsableCorners(cc, ci) == ~cc.isNone /\ ~ci.isNone /\ Len(ci.val) > 0

\* charuco_corners[0][0] and charuco_corners[-1][0] (lines 79-80); the
\* indexing is only reached behind the guard of line 74
FirstCorner(cc) == IF Len(cc.val) > 0 THEN cc.val[1] ELSE NoPoint
LastCorner(cc) == IF Len(cc.val) > 0 THEN cc.val[Len(cc.val)] ELSE NoPoint

NotFound(content) ==
    [img |-> content, top_left |-> NoPoint, bottom_right |-> NoPoint,
     board_detected |-> FALSE, corners |-> PyNone, ids |-> PyNone]

\* line 84 reached from line 74: interpolation ran and its arrays were
\* not usable
InterpolationFailed(content, cc, ci) ==
    [NotFound(content) EXCEPT !.corners = cc, !.ids = ci]

\* lines 66-84; v is what the vision library reports for this frame.
\* corners and ids are the interpolation arrays the result was taken from.
detect_charuco_board(content, v) ==
    IF MarkersDetected(v.marker_ids)
    THEN LET cc == v.interp.corners
             ci == v.interp.ids
         IN IF UsableCorners(cc, ci)
            THEN [img |-> Draw(content, "drawDetectedCornersCharuco"),
                  top_left |-> FirstCorner(cc),
                  bottom_right |-> LastCorner(cc),
                  board_detected |-> TRUE,
                  corners |-> cc, ids |-> ci]
            ELSE InterpolationFailed(content, cc, ci)
    ELSE NotFound(content)

\* ---- numpy buffers -------------------------------------------------------

\* a buffer none of the given references points to
Fresh(refs) == CHOOSE b \in BufIds :
                   b \notin refs /\ \A c \in BufIds : c \notin refs => b <= c

\* reference counting: a buffer nothing refers to is gone
Collect(h, refs) == [b \in BufIds |-> IF b \in refs THEN h[b] ELSE Free]

RawCopyRefM(src, fresh) == src

\* line 114: raw_img = img.copy() refers to a new buffer
RawCopyRef(src, fresh) == fresh

\* ---- names ---------------------------------------------------------------

\* f'Basler Camera {serial_number}' (line 139)
WindowTitle(serial) == <<"Basler Camera ", serial>>

\* f"{serial_number}.raw.png", f"{serial_number}.charuco.png"
RawName(serial) == <<serial, ".raw.png">>
CharucoName(serial) == <<serial, ".charuco.png">>

\* ---- main: the capture loop ----------------------------------------------

LoopPcs == {"loop", "retrieved", "annotate", "show", "waitkey", "dispatch"}

\* a key event arrives at a window of the process
KeyPress ==
    /\ pc \in LoopPcs
    /\ DOMAIN windows # {}
    /\ Len(keyQueue) < MaxKeys
    /\ \E k \in Keys : keyQueue' = Append(keyQueue, k)
    /\ UNCHANGED <<envVars, pc, error, serial_number, camera, cameraState,
                   windows, files, grabLog, grabResult, grabHeld, frameVars,
                   key, steps, keysRead, written>>

InitCharucoImgM == charuco_img

\* line 107: charuco_img = None
InitCharucoImg == NoBuf

\* lines 104-107: while camera.IsGrabbing(): grabResult = RetrieveResult(
\* 5000, TimeoutHandling_ThrowException); charuco_img = None
RetrieveResult ==
    /\ pc = "loop"
    /\ cameraState = "grabbing"
    /\ Len(grabLog) < MaxIter
    /\ \E o \in {"ok", "failed", "timeout"} :
        /\ grabLog' = Append(grabLog, o)
        /\ IF o = "timeout"
           THEN /\ pc' = "crashed"
                /\ error' = "TimeoutException"
                /\ UNCHANGED <<grabResult, grabHeld, charuco_img, heap>>
           ELSE /\ pc' = "retrieved"
                /\ error' = error
                /\ grabResult' = o
                /\ grabHeld' = grabHeld + 1
                /\ charuco_img' = InitCharucoImg
                /\ heap' = Collect(heap, {img, raw_img, InitCharucoImg})
    /\ steps' = <<>>
    /\ keysRead' = <<>>
    /\ written' = EmptyMap
    /\ converted' = Free
    /\ UNCHANGED <<envVars, serial_number, camera, cameraState, windows,
                   files, keyQueue, img, raw_img, top_left, bottom_right,
                   board_detected, charuco_corners, charuco_ids, marker_ids,
                   key>>

GrabSucceededM(r) == TRUE

\* grabResult.GrabSucceeded()
GrabSucceeded(r) == r = "ok"

\* line 108 false, line 158: grabResult.Release()
SkipFailedGrab ==
    /\ pc = "retrieved"
    /\ ~GrabSucceeded(grabResult)
    /\ grabHeld' = grabHeld - 1
    /\ steps' = Append(steps, "release")
    /\ pc' = "loop"
    /\ UNCHANGED <<envVars, error, serial_number, camera, cameraState,
                   windows, files, keyQueue, grabLog, grabResult, frameVars,
                   key, keysRead, written>>

\* lines 110-117: convert, GetArray, raw copy, detect_charuco_board
ProcessFrame ==
    /\ pc = "retrieved"
    /\ GrabSucceeded(grabResult)
    /\ \E v \in VisionResults :
        LET frame == [base |-> Len(grabLog), marks |-> <<>>]
            b1 == Fresh({img, raw_img, charuco_img})
            h1 == [heap EXCEPT ![b1] = frame]
            b2 == Fresh({b1, raw_img, charuco_img})
            h2 == [h1 EXCEPT ![b2] = h1[b1]]
            rawRef == RawCopyRef(b1, b2)
            d == detect_charuco_board(h2[b1], v)
            h3 == [h2 EXCEPT ![b1] = d.img]
        IN /\ img' = b1
           /\ raw_img' = rawRef
           /\ heap' = Collect(h3, {b1, rawRef, charuco_img})
           /\ converted' = frame
           /\ top_left' = d.top_left
           /\ bottom_right' = d.bottom_right
           /\ board_detected' = d.board_detected
           /\ charuco_corners' = d.corners
           /\ charuco_ids' = d.ids
           /\ marker_ids' = v.marker_ids
    /\ steps' = steps \o <<"convert", "copy", "detect">>
    /\ pc' = "annotate"
    /\ UNCHANGED <<envVars, error, serial_number, camera, cameraState,
                   windows, files, keyQueue, grabLog, grabResult, grabHeld,
                   charuco_img, key, keysRead, written>>

\* lines 119-135: np.percentile (np is not imported: NameError unless the
\* name resolves), illumination text, corner labels, charuco_img = img
Annotate ==
    /\ pc = "annotate"
    /\ IF ~npBound
       THEN /\ pc' = "crashed"
            /\ error' = "NameError: np"
            /\ UNCHANGED <<heap, charuco_img, steps>>
       ELSE /\ pc' = "show"
            /\ error' = error
            /\ steps' = Append(steps, "annotate")
            /\ IF board_detected
               THEN /\ heap' = [heap EXCEPT ![img] =
                            Draw(Draw(Draw(@, "illumination_text"),
                                      "top_left_text"), "bottom_right_text")]
                    /\ charuco_img' = img
               ELSE /\ heap' = [heap EXCEPT ![img] =
                            Draw(@, "illumination_text")]
                    /\ charuco_img' = charuco_img
    /\ UNCHANGED <<envVars, serial_number, camera, cameraState, windows,
                   files, keyQueue, grabLog, grabResult, grabHeld, img,
                   raw_img, top_left, bottom_right, board_detected,
                   charuco_corners, charuco_ids, marker_ids, converted, key,
                   keysRead, written>>

\* lines 139-140: cv2.imshow(window_title, img)
Show ==
    /\ pc = "show"
    /\ windows' = MapPut(windows, WindowTitle(serial_number), heap[img])
    /\ steps' = Append(steps, "render")
    /\ pc' = "waitkey"
    /\ UNCHANGED <<envVars, error, serial_number, camera, cameraState, files,
                   keyQueue, grabLog, grabResult, grabHeld, frameVars, key,
                   keysRead, written>>

\* cv2.waitKey(1): the oldest pending key event, or -1 when there is none
Polled(q) == IF Len(q) > 0 THEN Head(q) ELSE NoKey
AfterPoll(q) == IF Len(q) > 0 THEN Tail(q) ELSE q
Consumed(read, k) == IF k = NoKey THEN read ELSE Append(read, k)

\* line 143: key = cv2.waitKey(1) & 0xFF
WaitKey ==
    /\ pc = "waitkey"
    /\ key' = BitAnd(Polled(keyQueue), ByteMask)
    /\ keyQueue' = AfterPoll(keyQueue)
    /\ keysRead' = Consumed(keysRead, Polled(keyQueue))
    /\ steps' = Append(steps, "input")
    /\ pc' = "dispatch"
    /\ UNCHANGED <<envVars, error, serial_number, camera, cameraState,
                   windows, files, grabLog, grabResult, grabHeld, frameVars,
                   written>>

\* line 145: cv2.waitKey(1) & key == ord('q'); & binds tighter than ==
QuitTest(k2, k) == BitAnd(k2, k) = KEY_Q

\* lines 145-158: second poll, break / save / nothing, grabResult.Release()
HandleKey ==
    /\ pc = "dispatch"
    /\ keyQueue' = AfterPoll(keyQueue)
    /\ keysRead' = Consumed(keysRead, Polled(keyQueue))
    /\ IF QuitTest(Polled(keyQueue), key)
       THEN /\ pc' = "stopping"
            /\ steps' = Append(steps, "break")
            /\ UNCHANGED <<files, written, grabHeld>>
       ELSE /\ pc' = "loop"
            /\ grabHeld' = grabHeld - 1
            /\ IF key = KEY_S
               THEN LET f1 == MapPut(files, RawName(serial_number),
                                     heap[raw_img])
                        w1 == MapPut(written, RawName(serial_number),
                                     heap[raw_img])
                    IN IF charuco_img # NoBuf
                       THEN /\ files' = MapPut(f1,
                                   CharucoName(serial_number),
                                   heap[charuco_img])
                            /\ written' = MapPut(w1,
                                   CharucoName(serial_number),
                                   heap[charuco_img])
                            /\ steps' = steps \o
                                   <<"save_raw", "save_charuco", "release">>
                       ELSE /\ files' = f1
                            /\ written' = w1
                            /\ steps' = steps \o <<"save_raw", "release">>
               ELSE /\ steps' = Append(steps, "release")
                    /\ UNCHANGED <<files, written>>
    /\ UNCHANGED <<envVars, error, serial_number, camera, cameraState,
                   windows, grabLog, grabResult, frameVars, key>>

\* lines 161-162: camera.StopGrabbing() (closes the device StartGrabbing
\* opened), cv2.destroyAllWindows()
Shutdown ==
    /\ pc = "stopping"
    /\ cameraState' = "closed"
    /\ windows' = EmptyMap
    /\ pc' = "done"
    /\ UNCHANGED <<envVars, error, serial_number, camera, files, keyQueue,
                   grabLog, grabResult, grabHeld, frameVars, key, steps,
                   keysRead, written>>

Next ==
    \/ SelectCamera
    \/ StartGrabbing
    \/ KeyPress
    \/ RetrieveResult
    \/ SkipFailedGrab
    \/ ProcessFrame
    \/ Annotate
    \/ Show
    \/ WaitKey
    \/ HandleKey
    \/ Shutdown

Spec == Init /\ [][Next]_vars

\* ==== properties ==========================================================

\* the iteration that retrieved the latest grab result has run to its end
IterationOver == pc \in {"loop", "stopping", "done"} /\ Len(grabLog) > 0

SavedRaw == RawName(serial_number) \in DOMAIN written
SavedCharuco == CharucoName(serial_number) \in DOMAIN written

\* the frame of the current iteration with every overlay of a Found frame
AnnotatedFound ==
    [base |-> Len(grabLog),
     marks |-> <<"drawDetectedCornersCharuco", "illumination_text",
                 "top_left_text", "bottom_right_text">>]

\* C1: whenever <serial>.raw.png is written, what is written is the converted
\* frame as it was before the detector and the annotator drew on it.
Thm_C1 == SavedRaw => written[RawName(serial_number)] = converted

\* a Found iteration, drawn on three times, whose raw copy was saved
Wit_C1 == SavedRaw /\ board_detected /\ Len(heap[img].marks) = 4

\* C2: an iteration whose grab succeeded and whose keypress read is 's'
\* writes the raw copy in that iteration and stays in Streaming.
Cex_C2 ==
    (IterationOver /\ grabResult = "ok" /\ key = KEY_S)
        => (SavedRaw /\ pc = "loop")

\* C3: on a save action <serial>.charuco.png is written iff the board was
\* detected in that same iteration, and what is written is that iteration's
\* annotated frame.
Thm_C3 ==
    /\ SavedCharuco => SavedRaw
    /\ SavedRaw => (SavedCharuco <=> board_detected)
    /\ SavedCharuco =>
           written[CharucoName(serial_number)] = AnnotatedFound

\* a save in a NotFound iteration after an earlier iteration's detection
\* had been saved: the raw file is written, the charuco file is not
Wit_C3 ==
    /\ SavedRaw /\ ~SavedCharuco /\ ~board_detected
    /\ CharucoName(serial_number) \in DOMAIN files

\* C4: an iteration whose grab succeeded leaves Streaming iff the keypress
\* read is 'q'; a key other than 'q' and 's' changes nothing.  Stated in its
\* weakest reading: a 'q' read by line 143 stops the loop, the loop stops
\* only if some key event consumed in the iteration was a 'q', and a read
\* of any other key than 'q' and 's' writes no file.
Cex_C4 ==
    (IterationOver /\ grabResult = "ok")
        => /\ key = KEY_Q => pc \in {"stopping", "done"}
           /\ pc \in {"stopping", "done"} =>
                 \E i \in 1..Len(keysRead) : keysRead[i] = KEY_Q
           /\ (key \notin {KEY_Q, KEY_S}) => written = EmptyMap

\* C5: on the 'q' exit and on the acquisition-timeout exit alike,
\* acquisition is stopped, the camera released and the display closed
\* before the process ends.
Cex_C5 ==
    (pc = "done" \/ (pc = "crashed" /\ error = "TimeoutException"))
        => (cameraState = "closed" /\ windows = EmptyMap)

\* C6: an iteration whose grab failed does no conversion, detection,
\* annotation, display update or file write; it releases the grab result
\* and the loop goes on to the next retrieve.
Thm_C6 ==
    (grabResult = "failed" /\ pc \in {"retrieved", "loop"})
        => /\ written = EmptyMap
           /\ converted = Free
           /\ steps \in {<<>>, <<"release">>}
           /\ pc = "loop" =>
                 (steps = <<"release">> /\ grabHeld = 0
                  /\ cameraState = "grabbing")

\* a failed grab has been skipped while an 's' was pending
Wit_C6 ==
    /\ pc = "loop" /\ grabResult = "failed"
    /\ Len(keyQueue) > 0 /\ Head(keyQueue) = KEY_S

HasSerial(devs, serial) == \E i \in 1..Len(devs) : devs[i] = serial

\* C7: a supplied serial selects a device with exactly that serial or fails
\* with not-found; no serial selects the first device or fails with
\* no-cameras.
Cex_C7 ==
    pc # "start" =>
        IF argv # None
        THEN IF HasSerial(devices, argv)
             THEN camera # NoCamera /\ devices[camera] = argv
             ELSE camera = NoCamera /\ error = "ValueError: not found"
        ELSE IF Len(devices) = 0
             THEN camera = NoCamera /\ error = "ValueError: no cameras"
             ELSE camera = 1

\* C8: an iteration whose grab succeeded runs convert, raw copy, detector,
\* annotator, render, input handling in this order and always reaches render
\* and input handling: the illumination summary never fails.
Cex_C8 ==
    /\ pc = "crashed" => error # "NameError: np"
    /\ (IterationOver /\ grabResult = "ok") =>
           SubSeq(steps, 1, 6) = <<"convert", "copy", "detect", "annotate",
                                   "render", "input">>

\* C9: the serial in the window title and in the saved file names is the
\* serial number of the camera that was selected.
Cex_C9 ==
    /\ pc \in LoopPcs => serial_number = CameraSerial
    /\ \A t \in DOMAIN windows : t = WindowTitle(CameraSerial)
    /\ \A f \in DOMAIN files : f[1] = CameraSerial

\* C10: when the board is reported Found, the corner sequence is non-empty
\* and as long as the id sequence, so its first and last element exist.
Thm_C10 ==
    board_detected =>
        /\ ~charuco_corners.isNone /\ ~charuco_ids.isNone
        /\ Len(charuco_corners.val) > 0
        /\ Len(charuco_corners.val) = Len(charuco_ids.val)
        /\ top_left = charuco_corners.val[1]
        /\ bottom_right = charuco_corners.val[Len(charuco_corners.val)]

\* a Found result with more than one corner
Wit_C10 == board_detected /\ Len(charuco_corners.val) = MaxCorners

ZeroMarkers == marker_ids.isNone \/ Len(marker_ids.val) = 0
NoUsableIds == charuco_ids.isNone \/ Len(charuco_ids.val) = 0

\* C11: with zero markers detected, or with markers detected and no usable
\* corner ids from interpolation, detect_charuco_board returns NotFound
\* with both landmarks None and the frame as it was; it draws only when it
\* returns Found.  (pc = "annotate" is the state right after the call.)
Thm_C11 ==
    pc = "annotate" =>
        /\ (ZeroMarkers \/ NoUsableIds) =>
               /\ ~board_detected
               /\ top_left = NoPoint /\ bottom_right = NoPoint
               /\ heap[img] = converted
        /\ heap[img] # converted => board_detected

\* markers were detected and interpolation gave an empty id array
Wit_C11 ==
    /\ pc = "annotate" /\ ~ZeroMarkers
    /\ ~charuco_ids.isNone /\ Len(charuco_ids.val) = 0
    /\ ~board_detected

\* C12: an iteration with a successful grab consumes at most one key event,
\* and an 's' or 'q' it consumes takes effect.
Cex_C12 ==
    (IterationOver /\ grabResult = "ok") =>
        /\ Len(keysRead) <= 1
        /\ \A i \in 1..Len(keysRead) :
              /\ keysRead[i] = KEY_S => SavedRaw
              /\ keysRead[i] = KEY_Q => pc \in {"stopping", "done"}

\* C13: every grab result is released before the next retrieve and before
\* acquisition is stopped, on every path through the loop body.
Cex_C13 == IterationOver => grabHeld = 0
====
